---------------------------- MODULE Spec2Model ----------------------------
(***************************************************************************)
(* A model of the blazert ray-tracing core: the scene facade               *)
(* (src/blazert/scene.h), the triangle SAH predicate and the watertight    *)
(* triangle intersector (src/blazert/blazert.h) and the binned best-split  *)
(* search (src/blazert/bvh/binbuffer.h).                                   *)
(*                                                                         *)
(* Floating point values are modelled by exact integers and rationals;     *)
(* the special values the code relies on (numeric_limits::max, infinity,   *)
(* NaN) are modelled explicitly where the code's result depends on them.   *)
(***************************************************************************)
EXTENDS Integers, Sequences, FiniteSets, TLC

(***************************************************************************)
(* Bounds of the model.                                                    *)
(***************************************************************************)
\* largest number of primitives in a collection handed to the scene
MaxPrims == 2
\* largest hit distance a traversal reports
MaxDist == 2
\* largest number of commit calls in one run
MaxCommits == 2

(***************************************************************************)
(* State.  Each component has its own variables; a specification runs one  *)
(* component and leaves the variables of the others at rest.               *)
(***************************************************************************)
VARIABLES
    has_been_committed,  \* scene.h:23
    geometries,          \* scene.h:24
    triangles,           \* scene.h:26, the borrowed mesh or NoData
    triangles_sah,       \* scene.h:27
    triangles_bvh,       \* scene.h:28
    has_triangles,       \* scene.h:29
    spheres,             \* scene.h:31, the borrowed spheres or NoData
    spheres_sah,         \* scene.h:32
    spheres_bvh,         \* scene.h:33
    has_spheres,         \* scene.h:34
    bin_size,            \* scene.h:20, build_options.bin_size
    commits,             \* number of commit calls made so far
    call                 \* the last call on the scene and what it returned

sceneVars == <<has_been_committed, geometries, triangles, triangles_sah,
               triangles_bvh, has_triangles, spheres, spheres_sah,
               spheres_bvh, has_spheres, bin_size, commits, call>>

\* everything of the scene a caller can observe, apart from the call record
sceneState == <<has_been_committed, geometries, triangles, triangles_sah,
                triangles_bvh, has_triangles, spheres, spheres_sah,
                spheres_bvh, has_spheres, bin_size>>

VARIABLES
    vertices,  \* blazert.h:66 / blazert.h:124, *vertices_
    faces      \* blazert.h:67 / blazert.h:125, *faces_

meshVars == <<vertices, faces>>

VARIABLES
    axis_,   \* blazert.h:64
    pos_,    \* blazert.h:65
    pred     \* the last call of operator() and what it returned

predVars == <<axis_, pos_, pred>>

VARIABLES
    prepared,        \* PrepareTraversal has run: the mutable members are set
    ray_org_,        \* blazert.h:127
    ray_coeff_,      \* blazert.h:128
    trace_options_,  \* blazert.h:129
    t_min_,          \* blazert.h:130
    uv_,             \* blazert.h:133
    isx              \* the last call of Intersect and what it did

triVars == <<prepared, ray_org_, ray_coeff_, trace_options_, t_min_, uv_, isx>>

VARIABLES
    split_in,   \* the arguments of find_best_split_binned
    split_out   \* what the call returned, with the values of its locals

binVars == <<split_in, split_out>>

VARIABLES
    leaf_primitives,  \* intersect.h:39, node.primitives
    leaf_any_hit,     \* intersect.h:42, ray.any_hit
    leaf_pc,          \* where the call of intersect_leaf stands
    leaf_next,        \* the position in node.primitives the loop is at
    leaf_hit,         \* intersect.h:37, the local hit
    leaf_tested,      \* the primitives tested so far, with what each reported
    leaf_ret          \* what intersect_leaf returned

leafVars == <<leaf_primitives, leaf_any_hit, leaf_pc, leaf_next, leaf_hit,
              leaf_tested, leaf_ret>>

vars == <<sceneVars, meshVars, predVars, triVars, binVars, leafVars>>

\* the variables that the calls on one component leave alone
notScene == <<meshVars, predVars, triVars, binVars, leafVars>>
notPred == <<sceneVars, triVars, binVars, leafVars>>
notTri == <<sceneVars, predVars, binVars, leafVars>>
notBin == <<sceneVars, meshVars, predVars, triVars, leafVars>>
notLeaf == <<sceneVars, meshVars, predVars, triVars, binVars>>

(***************************************************************************)
(* Scene facade: one BlazertScene<T> and the calls made on it.             *)
(***************************************************************************)

\* the value of `return -1`: converted to unsigned int it is the largest
\* unsigned value, which the geometries counter (at most two successful adds
\* per scene) never reaches, so it is kept as the literal the code returns
SENTINEL == -1

\* a default-constructed collection / predicate: it borrows nothing
NoData == [kind |-> "none"]

\* a BVH that has not been built
NoBVH == [builds |-> 0, over |-> NoData]

\* the meshes a caller may pass to add_mesh (only the face count matters here)
MeshInputs == [kind : {"mesh"}, faces : 0..MaxPrims]

\* the sphere sets a caller may pass to add_spheres
SphereInputs == [kind : {"spheres"}, centers : 0..MaxPrims, radii : 0..MaxPrims]

\* values of build_options.bin_size a caller may set: 1 is invalid (< 2)
BinSizes == {1, 2, 16}

\* number of primitives of a stored collection
PrimCount(d) ==
    IF d.kind = "mesh" THEN d.faces
    ELSE IF d.kind = "spheres" THEN d.centers
    ELSE 0

\* BVH<T>::build: the BVH is rebuilt over the collection it is given
build(bvh, data) == [builds |-> bvh.builds + 1, over |-> data]

InitScene ==
    /\ has_been_committed = FALSE
    /\ geometries = 0
    /\ triangles = NoData
    /\ triangles_sah = NoData
    /\ triangles_bvh = NoBVH
    /\ has_triangles = FALSE
    /\ spheres = NoData
    /\ spheres_sah = NoData
    /\ spheres_bvh = NoBVH
    /\ has_spheres = FALSE
    /\ bin_size \in BinSizes
    /\ commits = 0
    /\ call = [op |-> "none"]

\* add_mesh without the test of has_been_committed
add_mesh_after_commit(mesh) ==
    IF ~has_triangles
    THEN /\ triangles' = mesh
         /\ triangles_sah' = mesh
         /\ has_triangles' = TRUE
         /\ geometries' = geometries + 1
         /\ call' = [op |-> "add_mesh", arg |-> mesh, ret |-> geometries]
         /\ UNCHANGED <<has_been_committed, triangles_bvh, spheres, spheres_sah,
                        spheres_bvh, has_spheres, bin_size, commits, notScene>>
    ELSE /\ call' = [op |-> "add_mesh", arg |-> mesh, ret |-> SENTINEL]
         /\ UNCHANGED <<sceneState, commits, notScene>>

\* BlazertScene::add_mesh(vertices, faces)
add_mesh(mesh) ==
    IF (~has_triangles) /\ (~has_been_committed)
    THEN /\ triangles' = mesh
         /\ triangles_sah' = mesh
         /\ has_triangles' = TRUE
         /\ geometries' = geometries + 1
         /\ call' = [op |-> "add_mesh", arg |-> mesh, ret |-> geometries]
         /\ UNCHANGED <<has_been_committed, triangles_bvh, spheres, spheres_sah,
                        spheres_bvh, has_spheres, bin_size, commits, notScene>>
    ELSE /\ call' = [op |-> "add_mesh", arg |-> mesh, ret |-> SENTINEL]
         /\ UNCHANGED <<sceneState, commits, notScene>>

\* BlazertScene::add_spheres(centers, radii)
add_spheres(sph) ==
    IF (~has_spheres) /\ (~has_been_committed)
    THEN /\ spheres' = sph
         /\ spheres_sah' = sph
         /\ has_spheres' = TRUE
         /\ geometries' = geometries + 1
         /\ call' = [op |-> "add_spheres", arg |-> sph, ret |-> geometries]
         /\ UNCHANGED <<has_been_committed, triangles, triangles_sah,
                        triangles_bvh, has_triangles, spheres_bvh, bin_size,
                        commits, notScene>>
    ELSE /\ call' = [op |-> "add_spheres", arg |-> sph, ret |-> SENTINEL]
         /\ UNCHANGED <<sceneState, commits, notScene>>

\* BlazertScene::commit()
commit ==
    /\ commits < MaxCommits
    /\ commits' = commits + 1
    /\ triangles_bvh' = IF has_triangles THEN build(triangles_bvh, triangles)
                        ELSE triangles_bvh
    /\ spheres_bvh' = IF has_spheres THEN build(spheres_bvh, spheres)
                      ELSE spheres_bvh
    /\ has_been_committed' = TRUE
    /\ call' = [op |-> "commit", was_committed |-> has_been_committed,
                ret |-> TRUE]
    /\ UNCHANGED <<geometries, triangles, triangles_sah, has_triangles,
                   spheres, spheres_sah, has_spheres, bin_size, notScene>>


\* the caller's RayHit record on entry: any distance, MaxDist + 1 standing for
\* the value of a fresh record
CallerRayHits == [hit_distance : 0..(MaxDist + 1), geom : {"caller"}]

\* the local `RayHit<T> temp_rayhit;` of intersect1
DefaultRayHit == [hit_distance |-> MaxDist + 1, geom |-> "none"]

\* traverse(bvh, ray, intersector, rayhit, options): what a traversal of one
\* class can report; a hit needs a BVH built over at least one primitive
TraverseOutcomes(bvh) ==
    {[hit |-> FALSE, dist |-> 0]} \cup
    (IF bvh.builds > 0 /\ PrimCount(bvh.over) > 0
     THEN [hit : {TRUE}, dist : 0..MaxDist]
     ELSE {})

\* the record of a class's traversal inside one intersect1 call
NotRun == [ran |-> FALSE, hit |-> FALSE, dist |-> 0]
Ran(out) == [ran |-> TRUE, hit |-> out.hit, dist |-> out.dist]

\* the merge of the sphere traversal's result into the caller's record
SphereMerges(temp, rayhit) == temp.hit_distance < rayhit.hit_distance

\* intersect1(scene, ray, rayhit): any_hit is ray.any_hit, rayhit0 the caller's
\* record on entry, tri_out / sph_out what the two traversals report
intersect1(any_hit, rayhit0, tri_out, sph_out) ==
    LET tri == IF has_triangles THEN Ran(tri_out) ELSE NotRun
        temp1 == IF tri.ran /\ tri.hit
                 THEN [hit_distance |-> tri.dist, geom |-> "triangles"]
                 ELSE DefaultRayHit
        rayhit1 == IF tri.ran /\ tri.hit THEN temp1 ELSE rayhit0
        hit1 == tri.ran /\ tri.hit
        sph == IF has_spheres THEN Ran(sph_out) ELSE NotRun
        temp2 == IF sph.ran /\ sph.hit
                 THEN [hit_distance |-> sph.dist, geom |-> "spheres"]
                 ELSE temp1
        merge == sph.ran /\ sph.hit /\ SphereMerges(temp2, rayhit1)
        rayhit2 == IF merge THEN temp2 ELSE rayhit1
        hit2 == hit1 \/ merge
    IN  /\ call' = [op |-> "intersect1", any_hit |-> any_hit,
                    rayhit0 |-> rayhit0, tri |-> tri, sph |-> sph,
                    ret |-> hit2, rayhit |-> rayhit2]
        /\ UNCHANGED <<sceneState, commits, notScene>>

\* a caller assigning the public member build_options.bin_size before commit
set_bin_size(b) ==
    /\ ~has_been_committed
    /\ bin_size' = b
    /\ call' = [op |-> "set_bin_size", arg |-> b]
    /\ UNCHANGED <<has_been_committed, geometries, triangles, triangles_sah,
                   triangles_bvh, has_triangles, spheres, spheres_sah,
                   spheres_bvh, has_spheres, commits, notScene>>

NextScene ==
    \/ \E mesh \in MeshInputs : add_mesh(mesh)
    \/ \E sph \in SphereInputs : add_spheres(sph)
    \/ commit
    \/ \E any_hit \in BOOLEAN, rayhit0 \in CallerRayHits :
         \E tri_out \in TraverseOutcomes(triangles_bvh),
            sph_out \in TraverseOutcomes(spheres_bvh) :
              intersect1(any_hit, rayhit0, tri_out, sph_out)
    \/ \E b \in BinSizes : set_bin_size(b)

(***************************************************************************)
(* Triangle meshes: the vertex and face lists a TriangleSAHPred or a       *)
(* TriangleIntersector borrows.  Vectors are triples; the code's indices   *)
(* 0..2 are kept and a component k of v is v[k + 1]; vertex ids and        *)
(* primitive ids are 0-based as in the code.                               *)
(***************************************************************************)

\* a flat mesh in the plane z = 1: a triangle, the same triangle with the
\* opposite winding, a triangle collapsed to a segment and one to a point
FlatMesh ==
    [vertices |-> << <<0, 0, 1>>, <<3, 0, 1>>, <<0, 3, 1>> >>,
     faces    |-> << <<0, 1, 2>>, <<0, 2, 1>>, <<0, 0, 1>>, <<2, 2, 2>> >>]

\* a mesh with vertices at different depths
TiltedMesh ==
    [vertices |-> << <<0, 0, 1>>, <<2, 0, 2>>, <<0, 2, 3>>, <<2, 2, 1>> >>,
     faces    |-> << <<0, 1, 2>>, <<1, 3, 2>>, <<3, 0, 1>>, <<2, 1, 0>> >>]

Meshes == {FlatMesh, TiltedMesh}

\* component k (0..2) of a vector
At(v, k) == v[k + 1]

\* (*vertices_)[i] and (*faces_)[i]
Vertex(i) == vertices[i + 1]
Face(i) == faces[i + 1]
NumFaces == Len(faces)

(***************************************************************************)
(* TriangleSAHPred: the partition predicate of the builder.                *)
(***************************************************************************)
\* largest cut position handed to TriangleSAHPred::Set
MaxCut == 3


\* TriangleSAHPred(vertices, faces): axis_(0), pos_(0.0)
InitPred ==
    /\ \E m \in Meshes : vertices = m.vertices /\ faces = m.faces
    /\ axis_ = 0
    /\ pos_ = 0
    /\ pred = [op |-> "none"]

\* TriangleSAHPred::Set(axis, pos)
Set(axis, pos) ==
    /\ axis_' = axis
    /\ pos_' = pos
    /\ UNCHANGED <<meshVars, pred, notPred>>

\* the value TriangleSAHPred::operator()(prim_id) returns
SAHPred(prim_id) ==
    LET face == Face(prim_id)
        p0 == Vertex(At(face, 0))
        p1 == Vertex(At(face, 0))
        p2 == Vertex(At(face, 0))
        center == At(p0, axis_) + At(p1, axis_) + At(p2, axis_)
    IN  center < pos_ * 3

\* one call of TriangleSAHPred::operator()(prim_id)
CallPred(prim_id) ==
    /\ pred' = [op |-> "call", prim_id |-> prim_id, axis |-> axis_,
                pos |-> pos_, ret |-> SAHPred(prim_id)]
    /\ UNCHANGED <<meshVars, axis_, pos_, notPred>>

NextPred ==
    \/ \E axis \in 0..2, pos \in 0..MaxCut : Set(axis, pos)
    \/ \E prim_id \in 0..(NumFaces - 1) : CallPred(prim_id)

(***************************************************************************)
(* TriangleIntersector.  Coordinates are integers and the ray directions   *)
(* have components in -1..1, so that the shear coefficients S are integers *)
(* and the edge functions U, V, W are computed exactly; distances and      *)
(* barycentrics are exact rationals <<numerator, denominator>>.            *)
(***************************************************************************)
\* largest coordinate of a ray origin in x and y
MaxOrg == 1
\* largest distance a caller passes in *t_inout
MaxT == 2


Abs(x) == IF x < 0 THEN -x ELSE x

RECURSIVE Gcd(_, _)
Gcd(a, b) == IF b = 0 THEN a ELSE Gcd(b, a % b)

\* the quotient n / d of the floating point type, d # 0
Quot(n, d) ==
    LET g == Gcd(Abs(n), Abs(d))
        sg == IF d < 0 THEN -1 ELSE 1
    IN  <<(sg * n) \div g, (sg * d) \div g>>

RatLess(a, b) == a[1] * b[2] < b[1] * a[2]

\* n / d for a divisor that divides n
Div(n, d) == IF d < 0 THEN (-n) \div (-d) ELSE n \div d

\* skip_prim_id when nothing is skipped: unsigned -1, larger than any index
NoSkip == -1

\* the rays of the model (origin, direction, min_t): rays going up from the
\* plane z = 0, rays going down from the plane z = 4 and rays inside z = 1
Rays ==
    [org : (0..MaxOrg) \X (0..MaxOrg) \X {0},
     dir : {<<0, 0, 1>>, <<1, 0, 1>>}, min_t : {0, 2}]
    \cup
    [org : (0..MaxOrg) \X (0..MaxOrg) \X {4},
     dir : {<<0, 0, -1>>, <<1, 1, -1>>}, min_t : {0, 2}]
    \cup
    [org : (0..MaxOrg) \X (0..MaxOrg) \X {1},
     dir : {<<1, 0, 0>>}, min_t : {0, 2}]

\* the trace options of the model: the window is all four primitives, or
\* leaves out the first, the last or both, or is empty
TraceOptions ==
    [cull_back_face : BOOLEAN,
     skip_prim_id : {1, NoSkip},
     prim_ids_range : {<<0, 4>>, <<0, 3>>, <<1, 4>>, <<1, 3>>, <<3, 3>>}]

\* argmax of a vector: the index of its first largest component
argmax(v) ==
    IF At(v, 0) >= At(v, 1) /\ At(v, 0) >= At(v, 2) THEN 0
    ELSE IF At(v, 1) >= At(v, 2) THEN 1
    ELSE 2

\* the permutation k and the shear S that PrepareTraversal computes
RayCoeff(dir) ==
    LET k2 == argmax(<<Abs(dir[1]), Abs(dir[2]), Abs(dir[3])>>)
        k0 == IF At(dir, k2) >= 0 THEN (k2 + 1) % 3 ELSE (k2 + 2) % 3
        k1 == IF At(dir, k2) >= 0 THEN (k2 + 2) % 3 ELSE (k2 + 1) % 3
    IN  [k |-> <<k0, k1, k2>>,
         S |-> <<Div(At(dir, k0), At(dir, k2)),
                 Div(At(dir, k1), At(dir, k2)),
                 Div(1, At(dir, k2))>>]

\* the members are not set by the constructor; nothing reads them before
\* PrepareTraversal has run
InitTri ==
    /\ \E m \in Meshes : vertices = m.vertices /\ faces = m.faces
    /\ prepared = FALSE
    /\ ray_org_ = <<0, 0, 0>>
    /\ ray_coeff_ = [k |-> <<0, 0, 0>>, S |-> <<0, 0, 0>>]
    /\ trace_options_ = [cull_back_face |-> FALSE, skip_prim_id |-> NoSkip,
                         prim_ids_range |-> <<0, 0>>]
    /\ t_min_ = 0
    /\ uv_ = << <<0, 1>>, <<0, 1>> >>
    /\ isx = [op |-> "none"]

\* TriangleIntersector::PrepareTraversal(ray, trace_options): called once on
\* an intersector, which intersect1 constructs for one traversal
PrepareTraversal(ray, trace_options) ==
    /\ ~prepared
    /\ prepared' = TRUE
    /\ ray_org_' = ray.org
    /\ ray_coeff_' = RayCoeff(ray.dir)
    /\ trace_options_' = trace_options
    /\ t_min_' = ray.min_t
    /\ uv_' = << <<0, 1>>, <<0, 1>> >>
    /\ isx' = [op |-> "PrepareTraversal"]
    /\ UNCHANGED <<meshVars, notTri>>

\* vector difference
Sub(a, b) == <<a[1] - b[1], a[2] - b[2], a[3] - b[3]>>

\* the pre-checks with a window that is closed at its upper end
PreCheck_closed_window(prim_index) ==
    IF (prim_index < trace_options_.prim_ids_range[1])
       \/ (prim_index > trace_options_.prim_ids_range[2])
    THEN "window"
    ELSE IF prim_index = trace_options_.skip_prim_id
    THEN "skip"
    ELSE "pass"

\* the window and self-intersection pre-checks of Intersect: "window" or
\* "skip" when the primitive is turned away, "pass" otherwise
PreCheck(prim_index) ==
    IF (prim_index < trace_options_.prim_ids_range[1])
       \/ (prim_index >= trace_options_.prim_ids_range[2])
    THEN "window"
    ELSE IF prim_index = trace_options_.skip_prim_id
    THEN "skip"
    ELSE "pass"

\* the inside test that lets a negative edge function through whenever
\* back faces are not culled
InsideReject_cull_only(U, V, W) ==
    IF U < 0 \/ V < 0 \/ W < 0
    THEN trace_options_.cull_back_face
    ELSE FALSE

\* the inside test of Intersect on the edge functions: TRUE when the hit is
\* rejected
InsideReject(U, V, W) ==
    IF U < 0 \/ V < 0 \/ W < 0
    THEN trace_options_.cull_back_face \/ (U > 0 \/ V > 0 \/ W > 0)
    ELSE FALSE

\* the coordinates Px, Py of a point P (relative to the ray origin) after the
\* shear along the ray
Sheared(P) ==
    [x |-> At(P, At(ray_coeff_.k, 0))
             - At(ray_coeff_.S, 0) * At(P, At(ray_coeff_.k, 2)),
     y |-> At(P, At(ray_coeff_.k, 1))
             - At(ray_coeff_.S, 1) * At(P, At(ray_coeff_.k, 2))]

\* an edge function P.x * Q.y - P.y * Q.x computed in T, and computed again
\* in double precision: the same value in exact arithmetic
EdgeT(P, Q) == P.x * Q.y - P.y * Q.x
EdgeDouble(P, Q) == P.x * Q.y - P.y * Q.x

\* the depth S[2] * P[k[2]] of a point P along the ray
Depth(P) == At(ray_coeff_.S, 2) * At(P, At(ray_coeff_.k, 2))

\* the edge functions U, V, W of primitive prim_index for the prepared ray,
\* with the depths Az, Bz, Cz of its vertices
EdgeFunctions(prim_index) ==
    LET A == Sub(Vertex(At(Face(prim_index), 0)), ray_org_)
        B == Sub(Vertex(At(Face(prim_index), 1)), ray_org_)
        C == Sub(Vertex(At(Face(prim_index), 2)), ray_org_)
        fallback == EdgeT(Sheared(C), Sheared(B)) = 0
                    \/ EdgeT(Sheared(A), Sheared(C)) = 0
                    \/ EdgeT(Sheared(B), Sheared(A)) = 0
    IN  [U |-> IF fallback THEN EdgeDouble(Sheared(C), Sheared(B))
               ELSE EdgeT(Sheared(C), Sheared(B)),
         V |-> IF fallback THEN EdgeDouble(Sheared(A), Sheared(C))
               ELSE EdgeT(Sheared(A), Sheared(C)),
         W |-> IF fallback THEN EdgeDouble(Sheared(B), Sheared(A))
               ELSE EdgeT(Sheared(B), Sheared(A)),
         Az |-> Depth(A), Bz |-> Depth(B), Cz |-> Depth(C)]

\* the outcome of Intersect past the pre-checks: the point where it returns
\* and, for a hit, the distance and barycentrics it stores
Outcome(t_in, prim_index) ==
    LET e == EdgeFunctions(prim_index)
        det == e.U + e.V + e.W
        D == e.U * e.Az + e.V * e.Bz + e.W * e.Cz
    IN  IF InsideReject(e.U, e.V, e.W) THEN [stage |-> "inside", e |-> e]
        ELSE IF det = 0 THEN [stage |-> "det", e |-> e]
        ELSE IF RatLess(t_in, Quot(D, det)) THEN [stage |-> "far", e |-> e]
        ELSE IF RatLess(Quot(D, det), <<t_min_, 1>>)
             THEN [stage |-> "near", e |-> e]
        ELSE [stage |-> "hit", e |-> e, tt |-> Quot(D, det),
              uv |-> <<Quot(e.V, det), Quot(e.W, det)>>]

\* TriangleIntersector::Intersect(t_inout, prim_index); t_in is *t_inout on
\* entry and isx.t_out is *t_inout on return
Intersect(t_in, prim_index) ==
    /\ prepared
    /\ IF PreCheck(prim_index) # "pass"
       THEN /\ isx' = [op |-> "Intersect", prim_index |-> prim_index,
                       t_in |-> t_in, uv_in |-> uv_, read |-> FALSE,
                       stage |-> PreCheck(prim_index), ret |-> FALSE,
                       t_out |-> t_in]
            /\ UNCHANGED uv_
       ELSE LET o == Outcome(t_in, prim_index)
            IN  /\ isx' = [op |-> "Intersect", prim_index |-> prim_index,
                           t_in |-> t_in, uv_in |-> uv_, read |-> TRUE,
                           stage |-> o.stage, ret |-> (o.stage = "hit"),
                           t_out |-> IF o.stage = "hit" THEN o.tt ELSE t_in,
                           U |-> o.e.U, V |-> o.e.V, W |-> o.e.W]
                /\ uv_' = IF o.stage = "hit" THEN o.uv ELSE uv_
    /\ UNCHANGED <<meshVars, prepared, ray_org_, ray_coeff_, trace_options_,
                   t_min_, notTri>>

NextTri ==
    \/ \E ray \in Rays, trace_options \in TraceOptions :
         PrepareTraversal(ray, trace_options)
    \/ \E t \in 0..MaxT, prim_index \in 0..(NumFaces - 1) :
         Intersect(<<t, 1>>, prim_index)

(***************************************************************************)
(* Binned best-split search.  A value of the floating point type T is an   *)
(* integer: a finite value lies in -FloatMax..FloatMax, Inf and -Inf are   *)
(* what an overflow gives and NaN is what 0 * Inf and Inf - Inf give.      *)
(***************************************************************************)
\* largest number of primitives in the range that is split
MaxBinPrims == 3
\* largest x coordinate of the centre of a primitive
MaxCoord == 2
\* largest options.bin_size
MaxBins == 3


\* std::numeric_limits<T>::max()
FloatMax == 1000000
Inf == FloatMax + 1
NaN == FloatMax + 2

\* the result of an operation on finite values, overflowing to +-Inf
Round(x) == IF x > FloatMax THEN Inf ELSE IF x < -FloatMax THEN -Inf ELSE x

IsInf(x) == x = Inf \/ x = -Inf
Sign(x) == IF x < 0 THEN -1 ELSE IF x > 0 THEN 1 ELSE 0

FSub(a, b) ==
    IF a = NaN \/ b = NaN THEN NaN
    ELSE IF IsInf(a) /\ IsInf(b) THEN (IF a = b THEN NaN ELSE a)
    ELSE IF IsInf(a) THEN a
    ELSE IF IsInf(b) THEN -b
    ELSE Round(a - b)

FAdd(a, b) == FSub(a, IF b = NaN THEN NaN ELSE -b)

FMul(a, b) ==
    IF a = NaN \/ b = NaN THEN NaN
    ELSE IF IsInf(a) \/ IsInf(b)
         THEN (IF a = 0 \/ b = 0 THEN NaN ELSE Sign(a) * Sign(b) * Inf)
    ELSE IF a # 0 /\ Abs(b) > FloatMax \div Abs(a)
         THEN Sign(a) * Sign(b) * Inf
    ELSE a * b

FAbs(a) == IF a = NaN THEN NaN ELSE Abs(a)

\* a < b on the floating point type: false when either is NaN
FLess(a, b) == a # NaN /\ b # NaN /\ a < b

\* std::min(a, b) and std::max(a, b)
FMin(a, b) == IF FLess(b, a) THEN b ELSE a
FMax(a, b) == IF FLess(a, b) THEN b ELSE a

\* a box surface without the term of the last pair of sides
calculate_box_surface_two_terms(min, max) ==
    LET box == <<FAbs(FSub(max[1], min[1])), FAbs(FSub(max[2], min[2])),
                 FAbs(FSub(max[3], min[3]))>>
    IN  FMul(2, FAdd(FMul(box[1], box[2]), FMul(box[2], box[3])))

\* calculate_box_surface(min, max)
calculate_box_surface(min, max) ==
    LET box == <<FAbs(FSub(max[1], min[1])), FAbs(FSub(max[2], min[2])),
                 FAbs(FSub(max[3], min[3]))>>
    IN  FMul(2, FAdd(FAdd(FMul(box[1], box[2]), FMul(box[2], box[3])),
                     FMul(box[3], box[1])))

\* Bin(): an empty bin
EmptyBin ==
    [min |-> <<FloatMax, FloatMax, FloatMax>>,
     max |-> <<-FloatMax, -FloatMax, -FloatMax>>,
     count |-> 0, cost |-> 0]

\* BinBuffer(size): size bins for each of the three axes; bin i of axis j is
\* bins[j + 1][i + 1]
BinBuffer(size) == [j \in 1..3 |-> [i \in 1..size |-> EmptyBin]]

\* unity(min, max, bmin, bmax): the box grown to hold another box
unity(bin, bmin, bmax) ==
    [bin EXCEPT !.min = [k \in 1..3 |-> FMin(bmin[k], bin.min[k])],
                !.max = [k \in 1..3 |-> FMax(bmax[k], bin.max[k])]]

\* a primitive of the collection: a centre and a half extent, the same on
\* every axis (a sphere, or a point when the half extent is 0); the centres
\* lie along the x axis, on it or one step off it in y or in z
Prims == [center : {<<x, o[1], o[2]>> :
                       x \in 0..MaxCoord, o \in {<<0, 0>>, <<1, 0>>, <<0, 1>>}},
          radius : {0, 1}]

\* get_primitive_bounding_box(p) and get_primitive_center(p)
get_primitive_bounding_box(p) ==
    [bmin |-> [k \in 1..3 |-> p.center[k] - p.radius],
     bmax |-> [k \in 1..3 |-> p.center[k] + p.radius]]
get_primitive_center(p) == p.center

\* the bins after the primitive p has been sorted in (one pass of the loop
\* over the range in sort_collection_into_bins)
SortOne(bins, p, min, max, size) ==
    LET bb == get_primitive_bounding_box(p)
        center == get_primitive_center(p)
        extent == [k \in 1..3 |-> max[k] - min[k]]
        \* (center - min) * inv_size * (bins.size - 1), truncated
        normalized_center ==
            [k \in 1..3 |->
                IF extent[k] > 0
                THEN ((center[k] - min[k]) * (size - 1)) \div extent[k]
                ELSE 0]
        idx(j) == IF size - 1 < normalized_center[j] THEN size - 1
                  ELSE normalized_center[j]
    IN  [j \in 1..3 |->
            IF extent[j] > 0
            THEN [bins[j] EXCEPT ![idx(j) + 1] =
                      unity([@ EXCEPT !.count = @ + 1], bb.bmin, bb.bmax)]
            ELSE bins[j]]

RECURSIVE SortFrom(_, _, _, _, _, _)
SortFrom(bins, prims, n, min, max, size) ==
    IF n > Len(prims) THEN bins
    ELSE SortFrom(SortOne(bins, prims[n], min, max, size), prims, n + 1,
                  min, max, size)

\* sort_collection_into_bins(p, begin, end, min, max, options)
sort_collection_into_bins(prims, min, max, size) ==
    SortFrom(BinBuffer(size), prims, 1, min, max, size)

\* the lower and upper corner of an empty accumulated box
SweepMin == <<FloatMax, FloatMax, FloatMax>>
SweepMax == <<-FloatMax, -FloatMax, -FloatMax>>

\* the loop `for (i = bins.size - 1; i > 0; --i)` over the bins b of one axis,
\* from bin i on: it stores in each bin the cost of the bins from it rightwards
RECURSIVE SweepLeft(_, _, _, _, _)
SweepLeft(b, i, count, bmin_, bmax_) ==
    IF i <= 0 THEN b
    ELSE LET bin == b[i + 1]
             nmin == [k \in 1..3 |-> FMin(bin.min[k], bmin_[k])]
             nmax == [k \in 1..3 |-> FMax(bin.max[k], bmax_[k])]
             ncount == count + bin.count
             cost == FMul(ncount, calculate_box_surface(nmin, nmax))
         IN  SweepLeft([b EXCEPT ![i + 1].cost = cost], i - 1, ncount,
                       nmin, nmax)

\* whether the sweep takes a split of the given cost as the best so far
Improves(cost, min_cost) == FLess(cost, min_cost)

\* the loop `for (i = 0; i < bins.size - 1; i++)` over the bins b of one axis,
\* from bin i on: the smallest full cost and the bin where the right part
\* starts
RECURSIVE SweepRight(_, _, _, _, _, _, _)
SweepRight(b, i, count, bmin_, bmax_, min_cost, minBin) ==
    IF i >= Len(b) - 1 THEN [min_cost |-> min_cost, minBin |-> minBin]
    ELSE LET bin == b[i + 1]
             next_bin == b[i + 2]
             nmin == [k \in 1..3 |-> FMin(bin.min[k], bmin_[k])]
             nmax == [k \in 1..3 |-> FMax(bin.max[k], bmax_[k])]
             ncount == count + bin.count
             cost == FAdd(FMul(ncount, calculate_box_surface(nmin, nmax)),
                          next_bin.cost)
         IN  IF Improves(cost, min_cost)
             THEN SweepRight(b, i + 1, ncount, nmin, nmax, cost, i + 1)
             ELSE SweepRight(b, i + 1, ncount, nmin, nmax, min_cost, minBin)

\* the axis of the smallest cost, as the two comparisons at the end of
\* find_best_split_binned choose it
MinCostAxis(min_cost) ==
    LET a1 == IF FLess(min_cost[2], min_cost[1]) THEN 1 ELSE 0
    IN  IF FLess(min_cost[3], min_cost[a1 + 1]) THEN 2 ELSE a1

\* cut_pos[j] = minBin * ((max[j] - min[j]) / bins.size) + min[j]
CutPos(minBin, min, max, size) ==
    LET step == Quot(max - min, size)
    IN  Quot(minBin * step[1] + min * step[2], step[2])

\* find_best_split_binned(collection, begin, end, min, max, options): the
\* returned pair with the locals it was computed from
BestSplit(prims, min, max, size) ==
    LET bins == sort_collection_into_bins(prims, min, max, size)
        swept == [j \in 1..3 |->
                     SweepLeft(bins[j], size - 1, 0, SweepMin, SweepMax)]
        best == [j \in 1..3 |->
                     SweepRight(swept[j], 0, 0, SweepMin, SweepMax,
                                FloatMax, 1)]
        min_cost == [j \in 1..3 |-> best[j].min_cost]
    IN  [axis |-> MinCostAxis(min_cost),
         cut_pos |-> [j \in 1..3 |->
                         CutPos(best[j].minBin, min[j], max[j], size)],
         min_cost |-> min_cost,
         minBin |-> [j \in 1..3 |-> best[j].minBin],
         bins |-> swept]

\* the box around the range that the builder passes as min and max
EnclosingBox(prims) ==
    LET lo(k) == {get_primitive_bounding_box(prims[n]).bmin[k] :
                      n \in 1..Len(prims)}
        hi(k) == {get_primitive_bounding_box(prims[n]).bmax[k] :
                      n \in 1..Len(prims)}
    IN  [min |-> [k \in 1..3 |-> CHOOSE x \in lo(k) : \A y \in lo(k) : x <= y],
         max |-> [k \in 1..3 |-> CHOOSE x \in hi(k) : \A y \in hi(k) : x >= y]]

\* an order on the primitives, to take one range for all its permutations
PrimKey(p) ==
    ((p.center[1] * 2 + p.center[2]) * 2 + p.center[3]) * 2 + p.radius

\* the ranges of n primitives, in the order of PrimKey
RECURSIVE RangesOf(_)
RangesOf(n) ==
    IF n = 1 THEN {<<p>> : p \in Prims}
    ELSE UNION {{Append(r, p) :
                    p \in {q \in Prims : PrimKey(r[n - 1]) <= PrimKey(q)}} :
                r \in RangesOf(n - 1)}

\* the ranges of the model: 1..MaxBinPrims primitives
Ranges == UNION {RangesOf(n) : n \in 1..MaxBinPrims}

InitBin ==
    /\ \E prims \in Ranges, size \in 2..MaxBins :
         split_in = [prims |-> prims, size |-> size,
                     min |-> EnclosingBox(prims).min,
                     max |-> EnclosingBox(prims).max]
    /\ split_out = [op |-> "none"]

\* one call of find_best_split_binned on the arguments split_in
find_best_split_binned ==
    /\ split_out.op = "none"
    /\ split_out' = [op |-> "find_best_split_binned",
                     ret |-> BestSplit(split_in.prims, split_in.min,
                                       split_in.max, split_in.size)]
    /\ UNCHANGED <<split_in, notBin>>

NextBin == find_best_split_binned

(***************************************************************************)
(* intersect_leaf: the loop over the primitives of a leaf, one step for    *)
(* each primitive tested and one for the return.  What intersect_primitive *)
(* reports for a primitive is an input of the step.                        *)
(***************************************************************************)
\* largest number of primitives in a leaf
MaxLeaf == 3

\* the primitive lists of a leaf: up to MaxLeaf primitive ids, in any order
\* and with repetitions
LeafLists == UNION {[1..n -> 0..(MaxLeaf - 1)] : n \in 0..MaxLeaf}

InitLeaf ==
    /\ leaf_primitives \in LeafLists
    /\ leaf_any_hit \in BOOLEAN
    /\ leaf_pc = "loop"
    /\ leaf_next = 1
    /\ leaf_hit = FALSE
    /\ leaf_tested = <<>>
    /\ leaf_ret = FALSE

\* `hit += intersect_primitive(...)` on a bool
Accumulate(hit, reported) == hit \/ reported

\* the test that leaves the loop without the condition on ray.any_hit
LeafBreaks_on_every_hit(hit, any_hit) == hit

\* `if (hit && ray.any_hit) break;`
LeafBreaks(hit, any_hit) == hit /\ any_hit

\* one pass of the loop body: the next primitive in stored order is tested
\* and reports `reported`
LeafTest(reported) ==
    /\ leaf_pc = "loop"
    /\ leaf_next <= Len(leaf_primitives)
    /\ leaf_hit' = Accumulate(leaf_hit, reported)
    /\ leaf_tested' = Append(leaf_tested,
                             [primitive |-> leaf_primitives[leaf_next],
                              at |-> leaf_next, hit |-> reported])
    /\ leaf_pc' = IF LeafBreaks(Accumulate(leaf_hit, reported), leaf_any_hit)
                  THEN "break" ELSE "loop"
    /\ leaf_next' = IF LeafBreaks(Accumulate(leaf_hit, reported), leaf_any_hit)
                    THEN leaf_next ELSE leaf_next + 1
    /\ UNCHANGED <<leaf_primitives, leaf_any_hit, leaf_ret, notLeaf>>

\* `return hit;` after the loop has ended or was left by break
LeafReturn ==
    /\ \/ leaf_pc = "break"
       \/ leaf_pc = "loop" /\ leaf_next > Len(leaf_primitives)
    /\ leaf_ret' = leaf_hit
    /\ leaf_pc' = "done"
    /\ UNCHANGED <<leaf_primitives, leaf_any_hit, leaf_next, leaf_hit,
                   leaf_tested, notLeaf>>

NextLeaf ==
    \/ \E reported \in BOOLEAN : LeafTest(reported)
    \/ LeafReturn

(***************************************************************************)
(* The specifications: one for each component, the variables of the other  *)
(* components staying at rest.                                             *)
(***************************************************************************)
RestScene ==
    /\ has_been_committed = FALSE
    /\ geometries = 0
    /\ triangles = NoData
    /\ triangles_sah = NoData
    /\ triangles_bvh = NoBVH
    /\ has_triangles = FALSE
    /\ spheres = NoData
    /\ spheres_sah = NoData
    /\ spheres_bvh = NoBVH
    /\ has_spheres = FALSE
    /\ bin_size = 16
    /\ commits = 0
    /\ call = [op |-> "none"]

RestMesh == vertices = <<>> /\ faces = <<>>

RestPred == axis_ = 0 /\ pos_ = 0 /\ pred = [op |-> "none"]

RestTri ==
    /\ prepared = FALSE
    /\ ray_org_ = <<0, 0, 0>>
    /\ ray_coeff_ = [k |-> <<0, 0, 0>>, S |-> <<0, 0, 0>>]
    /\ trace_options_ = [cull_back_face |-> FALSE, skip_prim_id |-> NoSkip,
                         prim_ids_range |-> <<0, 0>>]
    /\ t_min_ = 0
    /\ uv_ = << <<0, 1>>, <<0, 1>> >>
    /\ isx = [op |-> "none"]

RestBin == split_in = [op |-> "none"] /\ split_out = [op |-> "none"]

RestLeaf ==
    /\ leaf_primitives = <<>>
    /\ leaf_any_hit = FALSE
    /\ leaf_pc = "none"
    /\ leaf_next = 1
    /\ leaf_hit = FALSE
    /\ leaf_tested = <<>>
    /\ leaf_ret = FALSE

\* the scene facade
Init == InitScene /\ RestMesh /\ RestPred /\ RestTri /\ RestBin /\ RestLeaf
Spec == Init /\ [][NextScene]_vars

\* the triangle SAH predicate
InitSpecPred == InitPred /\ RestScene /\ RestTri /\ RestBin /\ RestLeaf
SpecPred == InitSpecPred /\ [][NextPred]_vars

\* the triangle intersector
InitSpecTri == InitTri /\ RestScene /\ RestPred /\ RestBin /\ RestLeaf
SpecTri == InitSpecTri /\ [][NextTri]_vars

\* the binned best-split search
InitSpecBin ==
    InitBin /\ RestScene /\ RestMesh /\ RestPred /\ RestTri /\ RestLeaf
SpecBin == InitSpecBin /\ [][NextBin]_vars

\* the leaf loop
InitSpecLeaf ==
    InitLeaf /\ RestScene /\ RestMesh /\ RestPred /\ RestTri /\ RestBin
SpecLeaf == InitSpecLeaf /\ [][NextLeaf]_vars

(***************************************************************************)
(* Properties of the scene facade, checked under Spec.                     *)
(***************************************************************************)

\* C1: an add_mesh / add_spheres call returns a geometry id (the value of the
\* geometries counter before the call, which it increments) exactly when its
\* class is not yet registered and commit has not run; otherwise it returns
\* the sentinel and leaves has_triangles, has_spheres, geometries,
\* has_been_committed, the stored primitive references and the BVHs unchanged.
C1_AddSucceedsIffFreshAndUncommitted ==
    [][/\ call'.op = "add_mesh" =>
            /\ (call'.ret # SENTINEL) <=>
                   ((~has_triangles) /\ (~has_been_committed))
            /\ call'.ret # SENTINEL =>
                   /\ call'.ret = geometries
                   /\ geometries' = geometries + 1
                   /\ has_triangles' /\ triangles' = call'.arg
            /\ call'.ret = SENTINEL => UNCHANGED sceneState
       /\ call'.op = "add_spheres" =>
            /\ (call'.ret # SENTINEL) <=>
                   ((~has_spheres) /\ (~has_been_committed))
            /\ call'.ret # SENTINEL =>
                   /\ call'.ret = geometries
                   /\ geometries' = geometries + 1
                   /\ has_spheres' /\ spheres' = call'.arg
            /\ call'.ret = SENTINEL => UNCHANGED sceneState
      ]_vars

\* C1 witness: add_mesh was turned away with the sentinel on a scene whose
\* triangle class is free, because commit had run, after add_spheres had
\* been given geometry id 0.
C1_Witness ==
    /\ call.op = "add_mesh"
    /\ call.ret = SENTINEL
    /\ has_been_committed
    /\ ~has_triangles
    /\ has_spheres
    /\ geometries = 1

\* C2: a commit call on a scene that is already committed is rejected and
\* rebuilds no BVH: no BVH of the scene is ever built more than once.
C2_SecondCommitRejected ==
    (call.op = "commit" /\ call.was_committed) =>
        /\ call.ret = FALSE
        /\ triangles_bvh.builds <= 1
        /\ spheres_bvh.builds <= 1

\* the classes whose traversal reported a hit in the last intersect1 call
HitDistances ==
    (IF call.tri.ran /\ call.tri.hit THEN {call.tri.dist} ELSE {})
    \cup (IF call.sph.ran /\ call.sph.hit THEN {call.sph.dist} ELSE {})

\* C3: whatever the caller's record held, intersect1 traverses each registered
\* class, reports a hit exactly when some class traversal reported one, with
\* the smallest distance among the classes that hit, the triangles winning at
\* equal distance.
C3_MergeKeepsClosest ==
    call.op = "intersect1" =>
        /\ call.tri.ran = has_triangles
        /\ call.sph.ran = has_spheres
        /\ call.ret <=> (HitDistances # {})
        /\ HitDistances # {} =>
              /\ \A d \in HitDistances : call.rayhit.hit_distance <= d
              /\ call.rayhit.hit_distance \in HitDistances
              /\ call.rayhit.geom =
                    IF call.tri.ran /\ call.tri.hit
                       /\ call.tri.dist = call.rayhit.hit_distance
                    THEN "triangles" ELSE "spheres"

\* C4: on an any-hit query no traversal of the spheres is started once the
\* traversal of the triangles has reported a hit.
C4_AnyHitShortCircuits ==
    (call.op = "intersect1" /\ call.any_hit /\ call.tri.ran /\ call.tri.hit)
        => ~call.sph.ran

\* what commit has to turn away: no registered class, a registered class
\* without primitives, or bin_size < 2 (none of it changes after a commit)
NothingToBuild ==
    \/ (~has_triangles) /\ (~has_spheres)
    \/ has_triangles /\ PrimCount(triangles) = 0
    \/ has_spheres /\ PrimCount(spheres) = 0
    \/ bin_size < 2

\* C6: a first commit on a scene with empty geometry or invalid options
\* returns an error and does not mark the scene as committed.
C6_CommitFailsFast ==
    (call.op = "commit" /\ ~call.was_committed /\ NothingToBuild) =>
        /\ call.ret = FALSE
        /\ ~has_been_committed

\* C7: an add_spheres call with centers and radii of different lengths
\* returns the sentinel, registers nothing and consumes no geometry id.
C7_LengthMismatchRejected ==
    (call.op = "add_spheres" /\ call.arg.centers # call.arg.radii) =>
        /\ call.ret = SENTINEL
        /\ spheres # call.arg

(***************************************************************************)
(* Properties of the triangle SAH predicate, checked under SpecPred.       *)
(***************************************************************************)

\* three times the centroid of triangle prim_id along an axis: the sum of its
\* three vertices
CentroidTimes3(prim_id, axis) ==
    At(Vertex(At(Face(prim_id), 0)), axis)
    + At(Vertex(At(Face(prim_id), 1)), axis)
    + At(Vertex(At(Face(prim_id), 2)), axis)

\* C8: the predicate returns true for triangle i exactly when the centroid of
\* i (the mean of its three vertices) along the axis is strictly less than
\* the cut position.
C8_PredIsCentroidBelowCut ==
    pred.op = "call" =>
        (pred.ret <=> (CentroidTimes3(pred.prim_id, pred.axis) < 3 * pred.pos))

(***************************************************************************)
(* Properties of the triangle intersector, checked under SpecTri.          *)
(***************************************************************************)

\* the primitive of the last Intersect call lies outside the window
\* [prim_ids_range[0], prim_ids_range[1]) or is the skipped primitive
TurnedAway ==
    \/ isx.prim_index < trace_options_.prim_ids_range[1]
    \/ ~(isx.prim_index < trace_options_.prim_ids_range[2])
    \/ isx.prim_index = trace_options_.skip_prim_id

\* C5: for a primitive outside the window or equal to skip_prim_id, Intersect
\* returns false before any geometry is read and leaves the in-out distance
\* and the stored uv unchanged; so it never reports a hit for one.
C5_WindowAndSkipRespected ==
    (isx.op = "Intersect" /\ TurnedAway) =>
        /\ isx.ret = FALSE
        /\ ~isx.read
        /\ isx.t_out = isx.t_in
        /\ uv_ = isx.uv_in

\* C5 witness: Intersect turned away the skipped primitive, inside the window,
\* which the ray hits (the same call hits it when nothing is skipped), after
\* an earlier hit had stored a uv other than the initial one.
C5_Witness ==
    /\ isx.op = "Intersect"
    /\ isx.prim_index = trace_options_.skip_prim_id
    /\ isx.prim_index >= trace_options_.prim_ids_range[1]
    /\ isx.prim_index < trace_options_.prim_ids_range[2]
    /\ isx.ret = FALSE
    /\ Outcome(isx.t_in, isx.prim_index).stage = "hit"
    /\ uv_ # << <<0, 1>>, <<0, 1>> >>

\* C9: past the pre-checks, with U, V, W all >= 0 the inside test passes; with
\* one of them negative the hit is rejected unless cull_back_face is false
\* and all three are <= 0; a negative together with a positive one is always
\* rejected; and with U + V + W = 0 the hit is rejected.
C9_InsideTest ==
    (isx.op = "Intersect" /\ isx.read) =>
        LET U == isx.U
            V == isx.V
            W == isx.W
            anyNegative == U < 0 \/ V < 0 \/ W < 0
            anyPositive == U > 0 \/ V > 0 \/ W > 0
            allNonPositive == U <= 0 /\ V <= 0 /\ W <= 0
            backFace == (~trace_options_.cull_back_face) /\ allNonPositive
        IN  /\ (U >= 0 /\ V >= 0 /\ W >= 0) => isx.stage # "inside"
            /\ anyNegative => ((isx.stage = "inside") <=> ~backFace)
            /\ (anyNegative /\ anyPositive) => isx.stage = "inside"
            /\ isx.stage = "inside" => ~isx.ret
            /\ U + V + W = 0 => ~isx.ret

\* C9 witness: a back-face hit was accepted: cull_back_face is false, U, V, W
\* are all <= 0, one of them is negative, and Intersect returned true.
C9_Witness ==
    /\ isx.op = "Intersect"
    /\ isx.read
    /\ ~trace_options_.cull_back_face
    /\ isx.U <= 0 /\ isx.V <= 0 /\ isx.W <= 0
    /\ isx.U < 0
    /\ isx.ret

(***************************************************************************)
(* Properties of the binned best-split search, checked under SpecBin.      *)
(* The costs are stated on the bins the call filled, without the sweeps:   *)
(* a side of a split is a set of bins, its count the sum of their counts   *)
(* and its box the box around their boxes.                                 *)
(***************************************************************************)

\* the bins lo..hi of axis j (1..3) that hold a primitive
Filled(j, lo, hi) ==
    {i \in lo..hi : split_out.ret.bins[j][i + 1].count > 0}

RECURSIVE CountIn(_, _)
CountIn(j, S) ==
    IF S = {} THEN 0
    ELSE LET i == CHOOSE x \in S : TRUE
         IN  split_out.ret.bins[j][i + 1].count + CountIn(j, S \ {i})

\* the extent along k of the box around the bins S of axis j
ExtentIn(j, S, k) ==
    LET los == {split_out.ret.bins[j][i + 1].min[k] : i \in S}
        his == {split_out.ret.bins[j][i + 1].max[k] : i \in S}
    IN  (CHOOSE x \in his : \A y \in his : y <= x)
        - (CHOOSE x \in los : \A y \in los : x <= y)

\* count times surface area of the bins lo..hi of axis j; a side without
\* primitives costs nothing
SideCost(j, lo, hi) ==
    LET S == Filled(j, lo, hi)
    IN  IF S = {} THEN 0
        ELSE CountIn(j, S) *
             2 * (ExtentIn(j, S, 1) * ExtentIn(j, S, 2)
                  + ExtentIn(j, S, 2) * ExtentIn(j, S, 3)
                  + ExtentIn(j, S, 3) * ExtentIn(j, S, 1))

\* the cost of splitting axis j before bin i
SplitCost(j, i) ==
    SideCost(j, 0, i - 1) + SideCost(j, i, split_in.size - 1)

\* the split of axis j before bin i has primitives on both sides
TwoSided(j, i) ==
    Filled(j, 0, i - 1) # {} /\ Filled(j, i, split_in.size - 1) # {}

C11_LeafLoop ==
    /\ Len(leaf_tested) <= Len(leaf_primitives)
    /\ \A n \in 1..Len(leaf_tested) :
           /\ leaf_tested[n].at = n
           /\ leaf_tested[n].primitive = leaf_primitives[n]
    /\ leaf_any_hit =>
           \A n \in 1..(Len(leaf_tested) - 1) : ~leaf_tested[n].hit
    /\ leaf_pc = "done" =>
           /\ leaf_ret <=> (\E n \in 1..Len(leaf_tested) : leaf_tested[n].hit)
           /\ (~leaf_any_hit) => Len(leaf_tested) = Len(leaf_primitives)

\* C11 witness: an any-hit call has returned true after the second primitive
\* of the leaf hit, the first having missed, and left a third one untested.
C11_Witness ==
    /\ leaf_pc = "done"
    /\ leaf_any_hit
    /\ leaf_ret
    /\ Len(leaf_tested) = 2
    /\ ~leaf_tested[1].hit
    /\ leaf_tested[2].hit
    /\ Len(leaf_primitives) = 3

=============================================================================
